---- MODULE Spec2Model ----
(***************************************************************************)
(* Model of the aerospike Database facade (src/Database.go): a registry of *)
(* table name -> struct type built once by NewDatabase, and thirteen       *)
(* operations that build a key, consult the registry where they allocate,  *)
(* and delegate to the Aerospike client.  The client, its key builder and  *)
(* its object codec are the external collaborator; they are modelled by    *)
(* the operators named Client*, NewKey, Encode and Decode.                 *)
(***************************************************************************)
EXTENDS Integers, Sequences, FiniteSets, TLC

VARIABLES
    namespace,           \* Database.namespace
    types,               \* Database.types: table name -> registered type
    DefaultWritePolicy,  \* Client.DefaultWritePolicy as NewDatabase left it
    DefaultScanPolicy,   \* Client.DefaultScanPolicy as NewDatabase left it
    store,               \* the remote records: <<table, id>> -> record
    last,                \* the most recent facade call: arguments and results
    scan                 \* the scan session started by Scan: driver, sink, consumer

vars == <<namespace, types, DefaultWritePolicy, DefaultScanPolicy, store, last, scan>>

(***************************************************************************)
(* Bounds of the model.                                                    *)
(***************************************************************************)
MaxTables == 2    \* longest example list handed to NewDatabase
MaxIdList == 2    \* longest id list handed to GetMany
MaxCap    == 1    \* largest buffer of a channel handed to Scan

Tables   == {"User", "Post"}          \* table names callers use
Ids      == {"", "a", "b"}            \* ids callers use; "" is rejected by NewKey
\* the ids callers use with each table
IdsOf(table) == IF table = "User" THEN Ids ELSE {"", "a"}
Nodes    == {1, 2}                    \* storage nodes of the cluster

(***************************************************************************)
(* Struct types known to the callers.  Two of them are both named User     *)
(* (same name, different package).  A field's tag is its json tag, "" when *)
(* it has none.                                                            *)
(***************************************************************************)
NilType == "nil"
TypeIds == {"main.User", "api.User", "main.Post"}

TypeName(t) ==
    CASE t = "main.User" -> "User"
      [] t = "api.User"  -> "User"
      [] t = "main.Post" -> "Post"

Kind(t) == "struct"

Tags(t) ==
    CASE t = "main.User" -> [FirstName |-> "firstName", Secret |-> ""]
      [] t = "api.User"  -> [Nick |-> "nick"]
      [] t = "main.Post" -> [Title |-> "title"]

Fields(t) == DOMAIN Tags(t)
TaggedFields(t) == {f \in Fields(t) : Tags(t)[f] # ""}

EmptyBins == [b \in {} |-> 0]
NoObj == [type |-> NilType, val |-> EmptyBins]

\* reflect.New(t): a freshly allocated zero value of struct type t
Zero(t) == [type |-> t, val |-> [f \in Fields(t) |-> 0]]

\* the objects callers hand to Set: one instance of each of two types, every
\* field set to a non-zero value
Objs == {[type |-> "main.User", val |-> [FirstName |-> 1, Secret |-> 1]],
         [type |-> "main.Post", val |-> [Title |-> 1]]}

(***************************************************************************)
(* The object codec of the client, with "json" as the tag it reads.        *)
(***************************************************************************)
AerospikeTag == "json"

\* one bin per tagged field, named by the tag; untagged fields are not saved
Encode(o) ==
    LET t == o.type
        bins == {Tags(t)[f] : f \in TaggedFields(t)}
    IN  [b \in bins |-> o.val[CHOOSE f \in TaggedFields(t) : Tags(t)[f] = b]]

\* fill target's tagged fields from the bins of the same name; other bins are
\* ignored and fields without a bin keep the target's value
Decode(bins, target) ==
    LET t == target.type
    IN  [target EXCEPT !.val =
            [f \in Fields(t) |->
                IF Tags(t)[f] # "" /\ Tags(t)[f] \in DOMAIN bins
                THEN bins[Tags(t)[f]]
                ELSE target.val[f]]]

(***************************************************************************)
(* Keys and records.                                                       *)
(***************************************************************************)
NilKey == <<"", "", "">>

\* as.NewKey: a key, or an error for an id it rejects
NewKey(ns, table, id) ==
    IF id = ""
    THEN [key |-> NilKey, err |-> "KeyConstructionError"]
    ELSE [key |-> <<ns, table, id>>, err |-> "nil"]

ValidIds(table) == {id \in IdsOf(table) : NewKey("test", table, id).err = "nil"}
Slots == UNION {{<<t, id>> : id \in ValidIds(t)} : t \in Tables}
Slot(key) == <<key[2], key[3]>>

Absent == [present |-> FALSE, bins |-> EmptyBins]
Record(bins) == [present |-> TRUE, bins |-> bins]

(***************************************************************************)
(* The client's primitives on the remote store st.                         *)
(***************************************************************************)
\* Client.PutObject under the write policy pol
ClientPutObject(st, pol, key, obj) ==
    LET new == Encode(obj)
        old == st[Slot(key)]
        merged == [b \in (DOMAIN old.bins) \cup (DOMAIN new) |->
                      IF b \in DOMAIN new THEN new[b] ELSE old.bins[b]]
    IN  IF pol.RecordExistsAction = "REPLACE" \/ ~old.present
        THEN [st EXCEPT ![Slot(key)] = Record(new)]
        ELSE [st EXCEPT ![Slot(key)] = Record(merged)]

\* Client.GetObject: decode the record into obj, or KEY_NOT_FOUND_ERROR
ClientGetObject(st, key, obj) ==
    IF st[Slot(key)].present
    THEN [obj |-> Decode(st[Slot(key)].bins, obj), err |-> "nil"]
    ELSE [obj |-> obj, err |-> "KEY_NOT_FOUND_ERROR"]

\* Client.Get: the record, or nil when there is none
ClientGet(st, key) == st[Slot(key)]

\* Client.Exists
ClientExists(st, key) == st[Slot(key)].present

\* Client.Delete: the store without the record, and whether it was there
ClientDelete(st, key) ==
    [store |-> [st EXCEPT ![Slot(key)] = Absent], existed |-> st[Slot(key)].present]

\* Client.Truncate: the store without any record of the table
ClientTruncate(st, ns, table) ==
    [s \in DOMAIN st |-> IF s[1] = table THEN Absent ELSE st[s]]

(***************************************************************************)
(* NewDatabase.                                                            *)
(***************************************************************************)
RECURSIVE FirstWinsTypes(_)
\* mutant: an example does not replace an earlier one of the same name
FirstWinsTypes(examples) ==
    IF examples = <<>>
    THEN [n \in {} |-> NilType]
    ELSE LET n == Len(examples)
             before == FirstWinsTypes(SubSeq(examples, 1, n - 1))
             t == examples[n]
         IN  [name \in (DOMAIN before) \cup {TypeName(t)} |->
                 IF name \in DOMAIN before THEN before[name] ELSE t]

RECURSIVE NewDatabaseTypes(_)
\* the loop over the examples: tableTypes[typeInfo.Name()] = typeInfo
NewDatabaseTypes(examples) ==
    IF examples = <<>>
    THEN [n \in {} |-> NilType]
    ELSE LET n == Len(examples)
             before == NewDatabaseTypes(SubSeq(examples, 1, n - 1))
             t == examples[n]
         IN  [name \in (DOMAIN before) \cup {TypeName(t)} |->
                 IF name = TypeName(t) THEN t ELSE before[name]]

\* mutant: the write policy left at the client's default, which merges bins
MergingWritePolicy == [RecordExistsAction |-> "UPDATE", DurableDelete |-> FALSE]

NewDatabaseWritePolicy == [RecordExistsAction |-> "REPLACE", DurableDelete |-> FALSE]

NewDatabaseScanPolicy == [Priority |-> "HIGH", ConcurrentNodes |-> TRUE, IncludeBinData |-> TRUE]

\* db.types[table]: the registered type and whether there is one
TypeLookup(table) ==
    IF table \in DOMAIN types
    THEN [t |-> types[table], exists |-> TRUE]
    ELSE [t |-> NilType, exists |-> FALSE]

ExampleLists == UNION {[1..n -> TypeIds] : n \in 0..MaxTables}

NotDefined == "Data type has not been defined for table"

(***************************************************************************)
(* The record of a facade call: its arguments, what it returned, whether   *)
(* it reached the client (called), and what the call before it did to the  *)
(* same key (prev).                                                        *)
(***************************************************************************)
NoPrev == [op |-> "none", arg |-> NoObj, dropped |-> FALSE]

Call(op, table, id) ==
    [op |-> op, table |-> table, id |-> id, ids |-> <<>>, examples |-> <<>>,
     arg |-> NoObj, obj |-> NoObj, bins |-> EmptyBins, objs |-> <<>>,
     flag |-> FALSE, err |-> "nil", called |-> FALSE, was |-> FALSE,
     dropped |-> FALSE, prev |-> NoPrev, ty |-> NilType,
     reg |-> [n \in {} |-> NilType], ns |-> ""]

\* what the call before this one did to slot, when it wrote or deleted it
Prev(slot) ==
    IF last.op \in {"Set", "Delete"} /\ last.err = "nil" /\ <<last.table, last.id>> = slot
    THEN [op |-> last.op, arg |-> last.arg, dropped |-> last.dropped]
    ELSE NoPrev

(***************************************************************************)
(* The scan session: the client's per-node producers, the sink they push   *)
(* into, and the consumer reading it.                                      *)
(***************************************************************************)
IdleScan ==
    [state |-> "idle", origin |-> "", table |-> "", chanCap |-> 0, cap |-> 0,
     elem |-> NilType, pending |-> [n \in Nodes |-> {}],
     node |-> [n \in Nodes |-> "done"], buf |-> <<>>, recv |-> <<>>,
     consumer |-> "none", snapshot |-> {}, closes |-> 0, latePush |-> FALSE]

Init ==
    /\ namespace = "test"
    /\ \E examples \in ExampleLists :
          /\ types = NewDatabaseTypes(examples)
          /\ last = [Call("NewDatabase", "", "") EXCEPT !.examples = examples]
    /\ DefaultWritePolicy = NewDatabaseWritePolicy
    /\ DefaultScanPolicy = NewDatabaseScanPolicy
    /\ store = [s \in Slots |-> Absent]
    /\ scan = IdleScan

Config == <<namespace, types, DefaultWritePolicy, DefaultScanPolicy>>

(***************************************************************************)
(* The facade operations.                                                  *)
(***************************************************************************)
\* mutant: the object returned is not the one the client decoded into
GetUnfilled(table, id) ==
    LET pk == NewKey(namespace, table, id)
        ty == TypeLookup(table)
        got == ClientGetObject(store, pk.key, Zero(ty.t))
    IN  /\ last' = IF pk.err # "nil"
                   THEN [Call("Get", table, id) EXCEPT !.err = pk.err]
                   ELSE IF ~ty.exists
                   THEN [Call("Get", table, id) EXCEPT !.err = NotDefined]
                   ELSE [Call("Get", table, id) EXCEPT
                            !.obj = Zero(ty.t), !.err = got.err, !.called = TRUE,
                            !.prev = Prev(Slot(pk.key))]
        /\ UNCHANGED <<Config, store, scan>>

Get(table, id) ==
    LET pk == NewKey(namespace, table, id)
        ty == TypeLookup(table)
        got == ClientGetObject(store, pk.key, Zero(ty.t))
    IN  /\ last' = IF pk.err # "nil"
                   THEN [Call("Get", table, id) EXCEPT !.err = pk.err]
                   ELSE IF ~ty.exists
                   THEN [Call("Get", table, id) EXCEPT !.err = NotDefined]
                   ELSE [Call("Get", table, id) EXCEPT
                            !.obj = got.obj, !.err = got.err, !.called = TRUE,
                            !.prev = Prev(Slot(pk.key))]
        /\ UNCHANGED <<Config, store, scan>>

Set(table, id, obj) ==
    LET pk == NewKey(namespace, table, id)
        old == store[Slot(pk.key)]
    IN  IF pk.err # "nil"
        THEN /\ last' = [Call("Set", table, id) EXCEPT !.arg = obj, !.err = pk.err]
             /\ UNCHANGED <<Config, store, scan>>
        ELSE /\ store' = ClientPutObject(store, DefaultWritePolicy, pk.key, obj)
             /\ last' = [Call("Set", table, id) EXCEPT
                            !.arg = obj, !.called = TRUE,
                            !.was = old.present,
                            !.dropped = (DOMAIN old.bins) \ (DOMAIN Encode(obj)) # {}]
             /\ UNCHANGED <<Config, scan>>

\* mutant: the client's existed result is dropped
DeleteNoFlag(table, id) ==
    LET pk == NewKey(namespace, table, id)
        del == ClientDelete(store, pk.key)
    IN  IF pk.err # "nil"
        THEN /\ last' = [Call("Delete", table, id) EXCEPT !.err = pk.err]
             /\ UNCHANGED <<Config, store, scan>>
        ELSE /\ store' = del.store
             /\ last' = [Call("Delete", table, id) EXCEPT
                            !.flag = FALSE, !.called = TRUE,
                            !.was = store[Slot(pk.key)].present,
                            !.prev = Prev(Slot(pk.key))]
             /\ UNCHANGED <<Config, scan>>

Delete(table, id) ==
    LET pk == NewKey(namespace, table, id)
        del == ClientDelete(store, pk.key)
    IN  IF pk.err # "nil"
        THEN /\ last' = [Call("Delete", table, id) EXCEPT !.err = pk.err]
             /\ UNCHANGED <<Config, store, scan>>
        ELSE /\ store' = del.store
             /\ last' = [Call("Delete", table, id) EXCEPT
                            !.flag = del.existed, !.called = TRUE,
                            !.was = store[Slot(pk.key)].present,
                            !.prev = Prev(Slot(pk.key))]
             /\ UNCHANGED <<Config, scan>>

Exists(table, id) ==
    LET pk == NewKey(namespace, table, id)
    IN  /\ last' = IF pk.err # "nil"
                   THEN [Call("Exists", table, id) EXCEPT !.err = pk.err]
                   ELSE [Call("Exists", table, id) EXCEPT
                            !.flag = ClientExists(store, pk.key), !.called = TRUE,
                            !.was = store[Slot(pk.key)].present]
        /\ UNCHANGED <<Config, store, scan>>

\* mutant: GetObject guarded by the registry as Get is
GetObjectGuarded(table, id, obj) ==
    LET pk == NewKey(namespace, table, id)
        got == ClientGetObject(store, pk.key, obj)
    IN  /\ last' = IF pk.err # "nil"
                   THEN [Call("GetObject", table, id) EXCEPT !.arg = obj, !.err = pk.err]
                   ELSE IF ~TypeLookup(table).exists
                   THEN [Call("GetObject", table, id) EXCEPT !.arg = obj, !.err = NotDefined]
                   ELSE [Call("GetObject", table, id) EXCEPT
                            !.arg = obj, !.obj = got.obj, !.err = got.err,
                            !.called = TRUE, !.was = store[Slot(pk.key)].present]
        /\ UNCHANGED <<Config, store, scan>>

GetObject(table, id, obj) ==
    LET pk == NewKey(namespace, table, id)
        got == ClientGetObject(store, pk.key, obj)
    IN  /\ last' = IF pk.err # "nil"
                   THEN [Call("GetObject", table, id) EXCEPT !.arg = obj, !.err = pk.err]
                   ELSE [Call("GetObject", table, id) EXCEPT
                            !.arg = obj, !.obj = got.obj, !.err = got.err,
                            !.called = TRUE, !.was = store[Slot(pk.key)].present]
        /\ UNCHANGED <<Config, store, scan>>

GetMap(table, id) ==
    LET pk == NewKey(namespace, table, id)
        rec == ClientGet(store, pk.key)
    IN  /\ last' = IF pk.err # "nil"
                   THEN [Call("GetMap", table, id) EXCEPT !.err = pk.err]
                   ELSE IF ~rec.present
                   THEN [Call("GetMap", table, id) EXCEPT
                            !.err = "Record not found", !.called = TRUE,
                            !.prev = Prev(Slot(pk.key))]
                   ELSE [Call("GetMap", table, id) EXCEPT
                            !.bins = rec.bins, !.called = TRUE, !.was = TRUE,
                            !.prev = Prev(Slot(pk.key))]
        /\ UNCHANGED <<Config, store, scan>>

\* what the client does with a batch that holds a nil key: it reads through
\* the nil pointer or rejects the batch; either way the client has been called
NilKeyOutcomes == {"panic", "PARAMETER_ERROR"}

\* Client.BatchGetObjects: objs[i] filled from the record of keys[i]; an object
\* whose record is missing is left as it was
ClientBatchGetObjects(st, keys, objs) ==
    [i \in 1..Len(keys) |->
        IF st[Slot(keys[i])].present
        THEN Decode(st[Slot(keys[i])].bins, objs[i])
        ELSE objs[i]]

\* mutant: every pointer is set to the address of the last object
GetManyLastPointer(table, idList) ==
    LET ty == TypeLookup(table)
        num == Len(idList)
        keys == [i \in 1..num |-> NewKey(namespace, table, idList[i]).key]
        objects == [i \in 1..num |-> Zero(ty.t)]
        filled == ClientBatchGetObjects(store, keys, objects)
        call == [Call("GetMany", table, "") EXCEPT !.ids = idList]
    IN  /\ \/ /\ ~ty.exists
              /\ last' = [call EXCEPT !.err = NotDefined]
           \/ /\ ty.exists /\ num = 0
              /\ last' = call
           \/ /\ ty.exists /\ num > 0
              /\ \E i \in 1..num : keys[i] = NilKey
              /\ \E out \in NilKeyOutcomes :
                    last' = [call EXCEPT !.err = out, !.called = TRUE]
           \/ /\ ty.exists /\ num > 0
              /\ \A i \in 1..num : keys[i] # NilKey
              /\ last' = [call EXCEPT
                            !.objs = [i \in 1..num |-> filled[num]],
                            !.called = TRUE]
        /\ UNCHANGED <<Config, store, scan>>

GetMany(table, idList) ==
    LET ty == TypeLookup(table)
        num == Len(idList)
        keys == [i \in 1..num |-> NewKey(namespace, table, idList[i]).key]
        objects == [i \in 1..num |-> Zero(ty.t)]
        call == [Call("GetMany", table, "") EXCEPT !.ids = idList]
    IN  /\ \/ /\ ~ty.exists
              /\ last' = [call EXCEPT !.err = NotDefined]
           \/ /\ ty.exists /\ num = 0
              /\ last' = call
           \/ /\ ty.exists /\ num > 0
              /\ \E i \in 1..num : keys[i] = NilKey
              /\ \E out \in NilKeyOutcomes :
                    last' = [call EXCEPT !.err = out, !.called = TRUE]
           \/ /\ ty.exists /\ num > 0
              /\ \A i \in 1..num : keys[i] # NilKey
              /\ last' = [call EXCEPT
                            !.objs = ClientBatchGetObjects(store, keys, objects),
                            !.called = TRUE]
        /\ UNCHANGED <<Config, store, scan>>

DeleteTable(table) ==
    /\ store' = ClientTruncate(store, namespace, table)
    /\ last' = [Call("DeleteTable", table, "") EXCEPT !.called = TRUE]
    /\ UNCHANGED <<Config, scan>>

Namespace ==
    /\ last' = [Call("Namespace", "", "") EXCEPT !.ns = namespace]
    /\ UNCHANGED <<Config, store, scan>>

Type(table) ==
    /\ last' = [Call("Type", table, "") EXCEPT !.ty = TypeLookup(table).t]
    /\ UNCHANGED <<Config, store, scan>>

Types ==
    /\ last' = [Call("Types", "", "") EXCEPT !.reg = types]
    /\ UNCHANGED <<Config, store, scan>>

IdLists(table) == UNION {[1..n -> IdsOf(table)] : n \in 0..MaxIdList}

(***************************************************************************)
(* Scan and All.  Client.ScanAllObjects starts one producer per storage    *)
(* node and returns at once; the producers push decoded objects into the   *)
(* channel and the client closes the channel when every producer is over.  *)
(***************************************************************************)
\* the node that holds the records of an id
NodeOf(id) == IF id = "a" THEN 1 ELSE 2

\* the objects a scan of the table produces from store st, by id
ScanItems(st, table, elem) ==
    {[id |-> id, obj |-> Decode(st[<<table, id>>].bins, Zero(elem))] :
        id \in {i \in ValidIds(table) : st[<<table, i>>].present}}

\* Client.ScanAllObjects(policy, channel, namespace, table): the running session
ScanAllObjects(st, origin, chanCap, cap, elem, table) ==
    [IdleScan EXCEPT
        !.state = "running", !.origin = origin, !.table = table,
        !.chanCap = chanCap, !.cap = cap, !.elem = elem,
        !.pending = [n \in Nodes |->
                        {it \in ScanItems(st, table, elem) : NodeOf(it.id) = n}],
        !.node = [n \in Nodes |-> "running"],
        !.consumer = "receiving",
        !.snapshot = ScanItems(st, table, elem)]

\* the element type of the channel a caller hands to Scan for a table
ElemOf(table) == IF table = "User" THEN "main.User" ELSE "main.Post"

\* mutant: Scan closes the channel when the client's call returns
ScanClosing(table, chanCap) ==
    /\ scan.state = "idle"
    /\ scan' = [ScanAllObjects(store, "Scan", chanCap, chanCap, ElemOf(table), table)
                   EXCEPT !.state = "closed", !.closes = 1]
    /\ last' = [Call("Scan", table, "") EXCEPT !.called = TRUE]
    /\ UNCHANGED <<Config, store>>

\* mutant: Scan hands the client a channel with more room than the caller's
ScanBuffering(table, chanCap) ==
    /\ scan.state = "idle"
    /\ scan' = ScanAllObjects(store, "Scan", chanCap, chanCap + 2, ElemOf(table), table)
    /\ last' = [Call("Scan", table, "") EXCEPT !.called = TRUE]
    /\ UNCHANGED <<Config, store>>

\* the client is handed the caller's channel itself: its capacity, its
\* element type
Scan(table, chanCap) ==
    /\ scan.state = "idle"
    /\ scan' = ScanAllObjects(store, "Scan", chanCap, chanCap, ElemOf(table), table)
    /\ last' = [Call("Scan", table, "") EXCEPT !.called = TRUE]
    /\ UNCHANGED <<Config, store>>

\* reflect.MakeChan(typ, buffer): panics unless typ is a channel type
MakeChan(typ, buffer) ==
    IF typ = NilType \/ Kind(typ) # "chan"
    THEN [ok |-> FALSE, cap |-> 0, elem |-> NilType]
    ELSE [ok |-> TRUE, cap |-> buffer, elem |-> typ]

All(table) ==
    LET channel == MakeChan(TypeLookup(table).t, 0)
    IN  IF ~channel.ok
        THEN /\ last' = [Call("All", table, "") EXCEPT !.err = "panic"]
             /\ UNCHANGED <<Config, store, scan>>
        ELSE /\ scan.state = "idle"
             /\ scan' = ScanAllObjects(store, "All", channel.cap, channel.cap,
                                       channel.elem, table)
             /\ last' = [Call("All", table, "") EXCEPT !.called = TRUE]
             /\ UNCHANGED <<Config, store>>

Failed == \E n \in Nodes : scan.node[n] = "failed"

\* the sink takes a push: room in the buffer, or a consumer waiting on an
\* unbuffered channel
SinkReady ==
    \/ Len(scan.buf) < scan.cap
    \/ scan.cap = 0 /\ scan.consumer = "receiving"

\* node n pushes one of its records into the sink
NodePush(n) ==
    /\ scan.state # "idle"
    /\ scan.node[n] = "running"
    /\ scan.pending[n] # {}
    /\ ~Failed
    /\ DefaultScanPolicy.ConcurrentNodes \/ \A m \in Nodes : m < n => scan.node[m] # "running"
    /\ SinkReady
    /\ \E it \in scan.pending[n] :
          scan' = [scan EXCEPT
                      !.pending[n] = @ \ {it},
                      !.buf = IF scan.cap = 0 THEN @ ELSE Append(@, it),
                      !.recv = IF scan.cap = 0 THEN Append(@, it) ELSE @,
                      !.latePush = @ \/ scan.state = "closed"]
    /\ UNCHANGED <<Config, store, last>>

\* node n is over: it has sent everything, or the scan was cancelled by the
\* terminal error of another node
NodeDone(n) ==
    /\ scan.state # "idle"
    /\ scan.node[n] = "running"
    /\ scan.pending[n] = {} \/ Failed
    /\ scan' = [scan EXCEPT !.node[n] = "done"]
    /\ UNCHANGED <<Config, store, last>>

\* node n ends with a terminal error
NodeFail(n) ==
    /\ scan.state # "idle"
    /\ scan.node[n] = "running"
    /\ scan' = [scan EXCEPT !.node[n] = "failed"]
    /\ UNCHANGED <<Config, store, last>>

\* the client closes the sink once no producer is running
Close ==
    /\ scan.state = "running"
    /\ \A n \in Nodes : scan.node[n] # "running"
    /\ scan' = [scan EXCEPT !.state = "closed", !.closes = @ + 1]
    /\ UNCHANGED <<Config, store, last>>

\* the consumer takes the next object out of the buffer
Receive ==
    /\ scan.consumer = "receiving"
    /\ scan.buf # <<>>
    /\ scan' = [scan EXCEPT !.buf = Tail(@), !.recv = Append(@, Head(scan.buf))]
    /\ UNCHANGED <<Config, store, last>>

\* the consumer walks away from the sink
ConsumerStop ==
    /\ scan.state = "running"
    /\ scan.consumer = "receiving"
    /\ scan' = [scan EXCEPT !.consumer = "stopped"]
    /\ UNCHANGED <<Config, store, last>>

\* the consumer's range loop ends: the sink is closed and drained
ConsumerDone ==
    /\ scan.state = "closed"
    /\ scan.consumer = "receiving"
    /\ scan.buf = <<>>
    /\ scan' = [scan EXCEPT !.consumer = "done"]
    /\ UNCHANGED <<Config, store, last>>

\* the finished session is dropped
Finish ==
    /\ scan.state = "closed"
    /\ scan.consumer = "done"
    /\ scan' = IdleScan
    /\ UNCHANGED <<Config, store, last>>

ElemTypes == {"main.User", "main.Post"}

\* One call at a time: a facade call starts when no scan session is running.
Quiet == scan.state = "idle"

Next ==
    \/ Quiet /\ \E t \in Tables : \E id \in IdsOf(t) : Get(t, id)
    \/ Quiet /\ \E t \in Tables : \E id \in IdsOf(t), o \in Objs : Set(t, id, o)
    \/ Quiet /\ \E t \in Tables : \E id \in IdsOf(t) : Delete(t, id)
    \/ Quiet /\ \E t \in Tables : \E id \in IdsOf(t) : Exists(t, id)
    \/ Quiet /\ \E t \in Tables : \E id \in IdsOf(t), ty \in ElemTypes : GetObject(t, id, Zero(ty))
    \/ Quiet /\ \E t \in Tables : \E id \in IdsOf(t) : GetMap(t, id)
    \/ Quiet /\ \E t \in Tables : \E ids \in IdLists(t) : GetMany(t, ids)
    \/ Quiet /\ \E t \in Tables : DeleteTable(t)
    \/ Quiet /\ \E t \in Tables, c \in 0..MaxCap : Scan(t, c)
    \/ Quiet /\ \E t \in Tables : All(t)
    \/ Quiet /\ \E t \in Tables : Type(t)
    \/ Quiet /\ Types
    \/ Quiet /\ Namespace
    \/ \E n \in Nodes : NodePush(n)
    \/ \E n \in Nodes : NodeDone(n)
    \/ \E n \in Nodes : NodeFail(n)
    \/ Close
    \/ Receive
    \/ ConsumerStop
    \/ ConsumerDone
    \/ Finish

Spec == Init /\ [][Next]_vars

\* the client's goroutines and a consumer that keeps receiving are scheduled
FairSpec ==
    /\ Spec
    /\ \A n \in Nodes : WF_vars(NodePush(n)) /\ WF_vars(NodeDone(n))
    /\ WF_vars(Close)
    /\ WF_vars(Receive)

(***************************************************************************)
(* Properties.                                                             *)
(***************************************************************************)
LastSlot == <<last.table, last.id>>
Registered(table) == table \in DOMAIN types
KeyFails(table, id) == NewKey(namespace, table, id).err # "nil"

\* C1 (full replace): a GetMap that follows a Set of the same key returns
\* without error exactly the bins of that Set's object, whatever the record
\* held before; a bin of the earlier record that the object's encoding omits
\* is gone.
C1_FullReplace ==
    (last.op = "GetMap" /\ last.prev.op = "Set")
        => /\ last.err = "nil"
           /\ last.bins = Encode(last.prev.arg)
           /\ store[LastSlot].bins = Encode(last.prev.arg)

\* C1 witness: GetMap after a second Set whose encoding omits a bin the first
\* Set had stored.
C1_Witness ==
    /\ last.op = "GetMap"
    /\ last.prev.op = "Set"
    /\ last.prev.dropped
    /\ last.bins = Encode(last.prev.arg)

\* C2 (round trip): a Get of a registered table that follows a Set of the same
\* key with an instance of the registered type returns no error and a new
\* object of that type, equal to the instance on every tagged field; the
\* object is built from a zero value, so its untagged fields are zero.
C2_RoundTrip ==
    (/\ last.op = "Get"
     /\ last.prev.op = "Set"
     /\ Registered(last.table)
     /\ last.prev.arg.type = types[last.table])
        => /\ last.err = "nil"
           /\ last.obj.type = types[last.table]
           /\ \A f \in TaggedFields(last.obj.type) : last.obj.val[f] = last.prev.arg.val[f]
           /\ \A f \in Fields(last.obj.type) \ TaggedFields(last.obj.type) : last.obj.val[f] = 0

\* C2 witness: such a Get returned an object with a non-zero tagged field while
\* the instance written had a non-zero untagged field.
C2_Witness ==
    /\ last.op = "Get"
    /\ last.prev.op = "Set"
    /\ Registered(last.table)
    /\ last.prev.arg.type = types[last.table]
    /\ last.err = "nil"
    /\ \E f \in TaggedFields(last.obj.type) : last.obj.val[f] # 0
    /\ \E f \in Fields(last.obj.type) \ TaggedFields(last.obj.type) : last.prev.arg.val[f] # 0

\* C3 (delete existence flag): a Delete with a key that can be built returns
\* no error, returns existed exactly when the record was there before the
\* call, and leaves the record absent; so a Delete right after a Set of the
\* key returns true and a Delete right after a Delete of the key returns
\* false.
C3_DeleteFlag ==
    (last.op = "Delete" /\ ~KeyFails(last.table, last.id))
        => /\ last.err = "nil"
           /\ last.flag = last.was
           /\ ~store[LastSlot].present
           /\ last.prev.op = "Set" => last.flag
           /\ last.prev.op = "Delete" => ~last.flag

\* C3 witness: the second of two Deletes of a key returned existed = false.
C3_Witness ==
    /\ last.op = "Delete"
    /\ last.prev.op = "Delete"
    /\ last.err = "nil"
    /\ ~last.flag

\* what Get would decode for an id of the table: the record decoded into a zero
\* value of the registered type, or the zero value when there is no record
Expected(table, id) ==
    IF store[<<table, id>>].present
    THEN Decode(store[<<table, id>>].bins, Zero(types[table]))
    ELSE Zero(types[table])

\* C4 (GetMany order and length): a GetMany that succeeds returns as many
\* objects as it was given ids, the i-th being the object decoded for the i-th
\* id (duplicates included), and with no ids it does not call the client.
C4_GetManyOrder ==
    (last.op = "GetMany" /\ last.err = "nil")
        => /\ Registered(last.table)
           /\ Len(last.objs) = Len(last.ids)
           /\ \A i \in 1..Len(last.ids) : last.objs[i] = Expected(last.table, last.ids[i])
           /\ Len(last.ids) = 0 => ~last.called
           /\ Len(last.ids) > 0 => last.called

\* C4 witness: two ids, one with a record and one without, answered in order.
C4_Witness ==
    /\ last.op = "GetMany"
    /\ last.err = "nil"
    /\ Len(last.ids) = 2
    /\ last.objs[1] # last.objs[2]
    /\ last.objs[1] = Expected(last.table, last.ids[1])

\* the operations that never read the registry, and whether each one's error
\* is the one the store alone decides
StoreDecides ==
    /\ last.called
    /\ last.err # NotDefined
    /\ last.op \in {"Set", "Delete", "Exists"} => last.err = "nil"
    /\ last.op \in {"GetObject", "GetMap"} => (last.err = "nil" <=> last.was)

\* C5 as stated: on a table that was never registered Get and GetMany fail
\* with the type-not-registered error for any id or id list.
C5_Original ==
    (last.op \in {"Get", "GetMany"} /\ ~Registered(last.table)) => last.err = NotDefined

\* C5 amended (unregistered-type guard): on a table that was never registered,
\* GetMany fails with the type-not-registered error for any id list, and Get
\* does for any id whose key can be built (for an id whose key cannot be
\* built Get returns the key error); neither calls the client.  GetObject,
\* GetMap, Exists, Delete and Set reach the client and end as the store
\* decides, registered table or not.
C5_UnregisteredGuard ==
    /\ (last.op = "GetMany" /\ ~Registered(last.table))
          => (last.err = NotDefined /\ ~last.called)
    /\ (last.op = "Get" /\ ~Registered(last.table) /\ ~KeyFails(last.table, last.id))
          => (last.err = NotDefined /\ ~last.called)
    /\ (last.op = "Get" /\ ~Registered(last.table) /\ KeyFails(last.table, last.id))
          => (last.err = "KeyConstructionError" /\ ~last.called)
    /\ (/\ last.op \in {"GetObject", "GetMap", "Exists", "Delete", "Set"}
        /\ ~KeyFails(last.table, last.id))
          => StoreDecides

\* C5 witness: GetObject filled the caller's object from a table that was
\* never registered.
C5_Witness ==
    /\ last.op = "GetObject"
    /\ ~Registered(last.table)
    /\ last.err = "nil"
    /\ last.obj # last.arg

\* C6 (key construction fails fast): an operation given an id whose key cannot
\* be built returns the key error and does not call the client; for GetMany,
\* on a registered table, this is so for any id of its list.
C6_KeyFailFast ==
    /\ (/\ last.op \in {"Get", "Set", "Delete", "Exists", "GetObject", "GetMap"}
        /\ KeyFails(last.table, last.id))
          => (last.err = "KeyConstructionError" /\ ~last.called)
    /\ (/\ last.op = "GetMany"
        /\ Registered(last.table)
        /\ \E i \in 1..Len(last.ids) : KeyFails(last.table, last.ids[i]))
          => (last.err = "KeyConstructionError" /\ ~last.called)

\* the objects received are the snapshot, each exactly once
Complete ==
    /\ {scan.recv[i] : i \in 1..Len(scan.recv)} = scan.snapshot
    /\ Len(scan.recv) = Cardinality(scan.snapshot)
    /\ \A it \in scan.snapshot : store[<<scan.table, it.id>>].present

\* C7 (scan completeness): All on a registered table returns a stream, and a
\* stream of All that the consumer has drained to its close, no node having
\* failed, has delivered the records of the table at scan start, each once.
C7_ScanCompleteness ==
    /\ (last.op = "All" /\ Registered(last.table))
          => (last.err = "nil" /\ scan.origin = "All" /\ scan.table = last.table)
    /\ (scan.origin = "All" /\ scan.consumer = "done" /\ ~Failed) => Complete

\* the sink is closed at most once, only when no node is producing, and
\* nothing is pushed into it afterwards
SinkSafety ==
    /\ scan.closes <= 1
    /\ ~scan.latePush
    /\ scan.state = "closed" => \A n \in Nodes : scan.node[n] # "running"
    /\ scan.state = "running" => scan.closes = 0

\* C8 (scan completion signal): with the client's producers scheduled and a
\* consumer that keeps receiving, the sink handed to Scan is eventually closed,
\* after completion of all nodes or after a terminal error; it is closed at
\* most once, only after every node has stopped, and nothing is pushed after.
C8_ScanCompletionSignal ==
    /\ []SinkSafety
    /\ (scan.state = "running") ~> (scan.state = "closed" \/ scan.consumer = "stopped")

\* C8 witness: a sink closed after a terminal error, the consumer still
\* receiving and having received an object.
C8_Witness ==
    /\ scan.state = "closed"
    /\ Failed
    /\ scan.closes = 1
    /\ scan.consumer = "receiving"
    /\ scan.recv # <<>>

\* the registry the examples determine: every example's type name is a table,
\* and the table's type is the last example of that name
RegistryOf(examples) ==
    /\ DOMAIN types = {TypeName(examples[i]) : i \in 1..Len(examples)}
    /\ \A i \in 1..Len(examples) :
          (\A j \in (i + 1)..Len(examples) : TypeName(examples[j]) # TypeName(examples[i]))
              => types[TypeName(examples[i])] = examples[i]

\* C9 (registry immutability): construction registers each example under its
\* type name, a later example of the same name replacing the earlier one, and
\* no step afterwards changes the registry or the namespace.
C9_RegistryImmutable ==
    /\ [](last.op = "NewDatabase" => RegistryOf(last.examples))
    /\ [][types' = types /\ namespace' = namespace]_vars

\* C9 witness: after a sequence of calls that ended in a Delete that removed a
\* record, User is registered under the type of the other package.
C9_Witness ==
    /\ last.op = "Delete"
    /\ last.flag
    /\ DOMAIN types = {"User", "Post"}
    /\ types["User"] = "api.User"

\* a producer is blocked on a push: the consumer has stopped, the caller's
\* channel is full, a running node still has records, the sink is open
Stuck ==
    /\ scan.state = "running"
    /\ scan.consumer = "stopped"
    /\ Len(scan.buf) >= scan.chanCap
    /\ \E n \in Nodes : scan.node[n] = "running" /\ scan.pending[n] # {}
    /\ ~Failed

====
